---- MODULE Spec2Model ----
(***************************************************************************)
(* Authentication token pipeline of the Backend-with-NodeJs repository:    *)
(* HMAC signatures (crypto), the Google authorization-code exchange        *)
(* (fetchUserFromGoogle / fetchIdToken), ID-token verification             *)
(* (google-auth-library), the JWT cookie middleware (jsonwebtoken) with    *)
(* login, logout and a change of its secret, the implicit-flow demo script *)
(* and the manually signed cookie.                                         *)
(*                                                                         *)
(* Library calls (crypto.createHmac, crypto.timingSafeEqual, Buffer.from,  *)
(* jwt.verify, jwt.sign, OAuth2Client.verifyIdToken) are modelled at their *)
(* call sites by the documented behaviour of the library.  HMAC is an      *)
(* ideal keyed hash: an injective map of (key, message) to a fixed-length  *)
(* digest string.                                                          *)
(***************************************************************************)
EXTENDS Integers, Sequences, FiniteSets, TLC

VARIABLES
    \* --- signatures (part_004) ---
    SECRET,       \* the HMAC secret of verifySignature
    payload,      \* payload handed to verifySignature
    recvSig,      \* receivedSignature handed to verifySignature
    sigResult,    \* outcome of the last verifySignature call
    \* --- authorization-code exchange ---
    variant,      \* which fetchUserFromGoogle / fetchIdToken is deployed
    urls,         \* authorization URLs handed out so far
    codeStatus,   \* the provider's table of authorization codes
    attempts,     \* one record per callback (exchange attempt)
    log,          \* what console.log has printed
    tokenLog,     \* the ID tokens among the values console.log has printed
    \* --- JWT cookie middleware ---
    now,          \* clock, seconds
    reqToken,     \* req.cookies.token of the last request
    authResult,   \* outcome of the auth middleware for the last request
    jwtKey,       \* value of process.env.JWT_SECRET in the running process
    session,      \* the token cookie of the last login
    ended,        \* whether GET /logout has been requested with that cookie
    rotation,     \* the operator's change of JWT_SECRET: old value and time
    \* --- client.verifyIdToken on its own ---
    idTok,        \* the ID token handed to verifyIdToken
    idResult,     \* what verifyIdToken answered
    \* --- implicit-flow demo script ---
    shown,        \* payloads written to #output, one per page load
    links,        \* authorization URLs put into the login link, one per page load
    \* --- manually signed cookie (part_010) ---
    cookieSecret, \* process.env.SECRET
    cookieIn,     \* the cookie presented: value signed, signing key, cookie text
    cookieOut,    \* what verify returned for it
    \* --- decoding an ID token by hand (62_live_test_OpenId.md, part_008) ---
    wire,         \* the id_token string, as its segments between the dots
    decodedData,  \* what JSON.parse(atob(id_token.split(".")[1])) gave
    \* --- base64url demo (52_JWT.mjs) ---
    triple,       \* header, payload and signature bytes of a token
    plain,        \* text that Buffer.from(..., "base64url").toString() gave
    \* --- Google strategy (part_007) ---
    users,        \* const users = []
    done,         \* what the last strategy callback passed to done
    \* --- passport-local app (passport.js) ---
    store,        \* express-session store: session id -> passport.user
    sid,          \* the session id in the browser cookie, 0 for none
    issued,       \* number of session ids given out
    requests      \* the requests served so far, with their outcome

vars == <<SECRET, payload, recvSig, sigResult, variant, urls, codeStatus,
          attempts, log, tokenLog, now, reqToken, authResult, jwtKey, session, ended,
          rotation, idTok, idResult, shown, links,
          cookieSecret, cookieIn, cookieOut,
          wire, decodedData,
          triple, plain,
          users, done,
          store, sid, issued, requests>>

sigVars == <<SECRET, payload, recvSig, sigResult>>
exVars == <<variant, urls, codeStatus, attempts, log, tokenLog>>
jwtVars == <<now, reqToken, authResult, jwtKey, session, ended, rotation>>
idVars == <<idTok, idResult>>
implVars == <<shown, links>>
cookieVars == <<cookieSecret, cookieIn, cookieOut>>
decVars == <<wire, decodedData>>
b64Vars == <<triple, plain>>
googleVars == <<users, done>>
localVars == <<store, sid, issued, requests>>

None == "none"

(***************************************************************************)
(* Bounds of the model.                                                    *)
(***************************************************************************)
MaxLen == 2          \* longest payload, in characters
DigestLen == 3       \* characters of a digest string in the model
MaxUrls == 1         \* authorization URLs handed out
MaxAttempts == 2     \* callbacks handled
MaxNow == 3          \* last clock value
MaxLoads == 2        \* page loads of the implicit-flow script
MaxValueLen == 3     \* longest cookie value, in symbols
MaxSegments == 4     \* most segments of an id_token string
MaxBytes == 3        \* most bytes of a header, payload or signature
MaxRequests == 4     \* most requests to the passport-local app

(***************************************************************************)
(* Strings are sequences of one-character strings.                         *)
(***************************************************************************)
HexChars == <<"0", "1", "2", "3", "4", "5", "6", "7",
              "8", "9", "a", "b", "c", "d", "e", "f">>

PChars == {"a", "b", "."}

\* characters a received signature may hold: hex digits, another ASCII
\* character, and a non-ASCII one
SigChars == {HexChars[i] : i \in 1..16} \cup {"g", "e_acute"}

Keys == {"super_secret_key", "other_key"}

KeyIdx(k) == IF k = "super_secret_key" THEN 0 ELSE 1

PCode(c) == CASE c = "a" -> 1 [] c = "b" -> 2 [] OTHER -> 3

RECURSIVE SeqsUpTo(_, _)
SeqsUpTo(S, n) ==
    IF n = 0 THEN {<<>>}
    ELSE LET shorter == SeqsUpTo(S, n - 1)
         IN shorter \cup {Append(s, c) : s \in {t \in shorter : Len(t) = n - 1}, c \in S}

Payloads == SeqsUpTo(PChars, MaxLen)

RECURSIVE Pow(_, _)
Pow(b, e) == IF e = 0 THEN 1 ELSE b * Pow(b, e - 1)

\* injective numbering of the payloads (bijective base 3)
RECURSIVE MsgIdx(_)
MsgIdx(p) ==
    IF p = <<>> THEN 0
    ELSE MsgIdx(SubSeq(p, 1, Len(p) - 1)) * 3 + PCode(p[Len(p)])

\* n written with exactly len hexadecimal digits
RECURSIVE ToHex(_, _)
ToHex(n, len) ==
    IF len = 0 THEN <<>>
    ELSE Append(ToHex(n \div 16, len - 1), HexChars[(n % 16) + 1])

\* crypto.createHmac("sha256", key).update(msg).digest("hex")
HmacHex(key, msg) ==
    ToHex(KeyIdx(key) * Pow(16, DigestLen - 1) + MsgIdx(msg), DigestLen)

\* the bytes Buffer.from(str) holds: UTF-8, two bytes for a non-ASCII character
Utf8Char(c) == IF c = "e_acute" THEN <<"c3", "a9">> ELSE <<c>>

RECURSIVE BufferFrom(_)
BufferFrom(s) ==
    IF s = <<>> THEN <<>>
    ELSE Utf8Char(s[1]) \o BufferFrom(SubSeq(s, 2, Len(s)))

\* crypto.timingSafeEqual(a, b): RangeError when the byte lengths differ
timingSafeEqual(a, b) ==
    IF Len(a) # Len(b) THEN "RangeError"
    ELSE IF a = b THEN "true" ELSE "false"

\* verifySignature(payload, receivedSignature) with the module-level SECRET
verifySignature(key, pl, receivedSignature) ==
    LET expected == HmacHex(key, pl)
    IN timingSafeEqual(BufferFrom(expected), BufferFrom(receivedSignature))

\* the strings that differ from s in exactly one position
OneCharChanges(s, Alphabet) ==
    UNION {{[s EXCEPT ![i] = c] : c \in Alphabet \ {s[i]}} : i \in 1..Len(s)}

\* received signatures tried against a payload: the genuine one, every
\* one-character change of it, and strings of another length
ReceivedSigs(key, pl) ==
    LET good == HmacHex(key, pl)
    IN {good} \cup OneCharChanges(good, SigChars)
         \cup {SubSeq(good, 1, Len(good) - 1), Append(good, "0"), <<>>}

\* SECRET is configuration; the payload is the caller's
SigInit ==
    /\ SECRET \in Keys
    /\ payload \in Payloads
    /\ recvSig = <<>>
    /\ sigResult = None

\* a caller runs verifySignature(payload, receivedSignature); the signature
\* was made over the payload or over one that differs in one character, with
\* SECRET or with another key, and may have been changed on the way
VerifyCall ==
    /\ sigResult = None
    /\ \E k \in Keys :
         \E signedPl \in {payload} \cup OneCharChanges(payload, PChars) :
           \E sig \in ReceivedSigs(k, signedPl) :
             /\ recvSig' = sig
             /\ sigResult' = verifySignature(SECRET, payload, sig)
    /\ UNCHANGED <<SECRET, payload>>
    /\ UNCHANGED <<exVars, jwtVars, idVars, implVars, cookieVars, decVars, b64Vars, googleVars, localVars>>

(***************************************************************************)
(* Google authorization-code exchange.                                     *)
(***************************************************************************)
clientId == "client-123"

GoogleIssuers == {"accounts.google.com", "https://accounts.google.com"}

CLOCK_SKEW_SECS == 300        \* google-auth-library's fixed clock skew
MAX_TOKEN_LIFETIME_SECS == 86400

\* the deployments of the exchange in the repository
Variants == {"service", "library", "browser"}

\* the authorization URL each deployment hands out: generateAuthUrl adds
\* response_type=code, client_id and redirect_uri; none carries a state or a
\* nonce
AuthUrl(v) ==
    [response_type |-> "code",
     client_id |-> clientId,
     scope |-> {"openid", "email", "profile"},
     redirect_uri |-> IF v = "browser" THEN "http://localhost:5500"
                      ELSE "http://localhost:4000/auth/google/callback",
     state |-> None,
     nonce |-> None]

Codes == {"c1", "c2"}

\* the HTTP client's default number of retries of a request without response
NoResponseRetries == 2

\* state values a callback may carry in its query string
CallbackStates == {None, "s1"}

\* an ID token: who signed it and its claims; aud is a string, or an array
\* when audIsArray
NoTime == 0 - 1

IdToken(signer, iss, aud, audIsArray, iat, exp) ==
    [wellFormed |-> TRUE, signer |-> signer, iss |-> iss, aud |-> aud,
     audIsArray |-> audIsArray, iat |-> iat, exp |-> exp, sub |-> "user-1"]

\* what the provider returns for this client at time t, and a token that
\* somebody else signed
GoodToken(t) ==
    IdToken("google", "https://accounts.google.com", {clientId}, FALSE, t, t + 3600)

ForgedToken(t) ==
    IdToken("attacker", "https://accounts.google.com", {clientId}, FALSE, t, t + 3600)

ResponseTokens(t) == {GoodToken(t), ForgedToken(t)}

\* client.verifyIdToken({idToken, audience}): the checks of
\* verifySignedJwtWithCertsAsync in their order; "SUCCESS" or the error
verifyIdToken(tok, audience, t) ==
    IF ~tok.wellFormed THEN "Wrong number of segments in token"
    ELSE IF tok.signer # "google" THEN "Invalid token signature"
    ELSE IF tok.iat = NoTime THEN "No issue time in token"
    ELSE IF tok.exp = NoTime THEN "No expiration time in token"
    ELSE IF tok.exp >= t + MAX_TOKEN_LIFETIME_SECS
         THEN "Expiration time too far in future"
    ELSE IF t < tok.iat - CLOCK_SKEW_SECS THEN "Token used too early"
    ELSE IF t > tok.exp + CLOCK_SKEW_SECS THEN "Token used too late"
    ELSE IF tok.iss \notin GoogleIssuers THEN "Invalid issuer"
    ELSE IF tok.audIsArray \/ tok.aud # {audience}
         THEN "Wrong recipient, payload audience != requiredAudience"
    ELSE "SUCCESS"

\* JSON.parse(atob(id_token.split(".")[1])): the payload, whoever signed it
decodePayload(tok) == [sub |-> tok.sub, iss |-> tok.iss, aud |-> tok.aud]

\* loginTicket.getPayload()
getPayload(tok) == [sub |-> tok.sub, iss |-> tok.iss, aud |-> tok.aud]

NoToken == [wellFormed |-> FALSE, signer |-> None, iss |-> None, aud |-> {},
            audIsArray |-> FALSE, iat |-> NoTime, exp |-> NoTime, sub |-> None]

NoUser == [sub |-> None, iss |-> None, aud |-> {}]

NoData == [status |-> None, id_token |-> NoToken]

ErrorData == [status |-> "error", id_token |-> NoToken]

TokenData(tok) == [status |-> "tokens", id_token |-> tok]

\* requests counts the token-endpoint requests sent for the attempt, netFail
\* says that one of them failed on the network, verifierCalled that
\* verifyIdToken was invoked
IdleAttempt ==
    [pc |-> "idle", req |-> 0, code |-> None, state |-> None,
     data |-> NoData, userData |-> NoUser,
     requests |-> 0, netFail |-> FALSE, verifierCalled |-> FALSE]

\* a provider that exchanges a code however often it is presented
ProviderAcceptsAnyCode(status) == TRUE

\* the provider exchanges a code once: "One-time use only"
ProviderAccepts(status) == status = "valid"

\* fetchUserFromGoogle that reads the payload out of the ID token without
\* verifying it, as fetchIdToken does
serviceContinueDecodeOnly(data, t) ==
    IF data.status = "error"
    THEN [pc |-> "returned", userData |-> NoUser, verifierCalled |-> FALSE,
          logged |-> {"Error occurred", "data"}, printed |-> {}]
    ELSE [pc |-> "returned", userData |-> decodePayload(data.id_token),
          verifierCalled |-> FALSE, logged |-> {"userData"}, printed |-> {}]

\* fetchUserFromGoogle without the "if (data.error) return": the verifier is
\* handed data.id_token whatever the response was
serviceContinueNoErrorCheck(data, t) ==
    IF verifyIdToken(data.id_token, clientId, t) = "SUCCESS"
    THEN [pc |-> "returned", userData |-> getPayload(data.id_token),
          verifierCalled |-> TRUE, logged |-> {"userData"}, printed |-> {}]
    ELSE [pc |-> "threw", userData |-> NoUser, verifierCalled |-> TRUE,
          logged |-> {}, printed |-> {}]

\* googleAuthService.js, fetchUserFromGoogle after response.json()
serviceContinue(data, t) ==
    IF data.status = "error"
    THEN [pc |-> "returned", userData |-> NoUser, verifierCalled |-> FALSE,
          logged |-> {"Error occurred", "data"}, printed |-> {}]
    ELSE IF verifyIdToken(data.id_token, clientId, t) = "SUCCESS"
    THEN [pc |-> "returned", userData |-> getPayload(data.id_token),
          verifierCalled |-> TRUE, logged |-> {"userData"}, printed |-> {}]
    ELSE [pc |-> "threw", userData |-> NoUser, verifierCalled |-> TRUE,
          logged |-> {}, printed |-> {}]

\* 03_Express_Server.mjs, fetchUserFromGoogle after client.getToken(code);
\* getToken rejects on an error response
libraryContinue(data, t) ==
    IF data.status = "error"
    THEN [pc |-> "threw", userData |-> NoUser, verifierCalled |-> FALSE,
          logged |-> {}, printed |-> {}]
    ELSE IF verifyIdToken(data.id_token, clientId, t) = "SUCCESS"
    THEN [pc |-> "returned", userData |-> getPayload(data.id_token),
          verifierCalled |-> TRUE, logged |-> {"tokens"},
          printed |-> {data.id_token}]
    ELSE [pc |-> "threw", userData |-> NoUser, verifierCalled |-> TRUE,
          logged |-> {"tokens"},
          printed |-> {data.id_token}]

\* part_008, fetchIdToken after response.json(): the payload is decoded and
\* printed; the function returns nothing
browserContinue(data, t) ==
    IF data.status = "error"
    THEN [pc |-> "returned", userData |-> NoUser, verifierCalled |-> FALSE,
          logged |-> {"Error occurred", "data"}, printed |-> {}]
    ELSE [pc |-> "returned", userData |-> NoUser, verifierCalled |-> FALSE,
          logged |-> {"data", "decoded userData"},
          printed |-> {data.id_token}]

Continue(v, data, t) ==
    CASE v = "service" -> serviceContinue(data, t)
      [] v = "library" -> libraryContinue(data, t)
      [] OTHER -> browserContinue(data, t)

ExInit ==
    /\ variant \in Variants
    /\ urls = <<>>
    /\ codeStatus = [c \in Codes |-> "valid"]
    /\ attempts = [i \in 1..MaxAttempts |-> IdleAttempt]
    /\ log = {}
    /\ tokenLog = {}

\* generateGoogleAuthUrl / the authUrl of the page
GenerateGoogleAuthUrl ==
    /\ Len(urls) < MaxUrls
    /\ urls' = Append(urls, AuthUrl(variant))
    /\ UNCHANGED <<variant, codeStatus, attempts, log, tokenLog>>
    /\ UNCHANGED <<sigVars, jwtVars, idVars, implVars, cookieVars, decVars, b64Vars, googleVars, localVars>>

\* the redirect URI is requested with a code and a state; the handler calls
\* fetchUserFromGoogle(code), which sends the token request at once
Callback(i, r, c, st) ==
    /\ attempts[i].pc = "idle"
    /\ IF i = 1 THEN TRUE ELSE attempts[i - 1].pc # "idle"
    /\ r \in 1..Len(urls)
    /\ attempts' = [attempts EXCEPT ![i] =
                      [IdleAttempt EXCEPT !.pc = "sent", !.req = r,
                                          !.code = c, !.state = st,
                                          !.requests = 1]]
    /\ log' = log \cup {"Running fetchIdToken function..."}
    /\ UNCHANGED <<variant, urls, codeStatus, tokenLog>>
    /\ UNCHANGED <<sigVars, jwtVars, idVars, implVars, cookieVars, decVars, b64Vars, googleVars, localVars>>

\* the provider's token endpoint answers the request of attempt i
TokenEndpoint(i) ==
    /\ attempts[i].pc = "sent"
    /\ IF ProviderAccepts(codeStatus[attempts[i].code])
       THEN /\ codeStatus' = [codeStatus EXCEPT ![attempts[i].code] = "used"]
            /\ \E tok \in ResponseTokens(now) :
                 attempts' = [attempts EXCEPT ![i].pc = "responded",
                                              ![i].data = TokenData(tok)]
       ELSE /\ attempts' = [attempts EXCEPT ![i].pc = "responded",
                                            ![i].data = ErrorData]
            /\ UNCHANGED codeStatus
    /\ UNCHANGED <<variant, urls, log, tokenLog>>
    /\ UNCHANGED <<sigVars, jwtVars, idVars, implVars, cookieVars, decVars, b64Vars, googleVars, localVars>>

\* the request fails on the network: fetch / getToken rejects, and
\* fetchUserFromGoogle neither catches the rejection nor sends the request
\* again
NetworkFail(i) ==
    /\ attempts[i].pc = "sent"
    /\ attempts' = [attempts EXCEPT ![i].pc = "threw", ![i].netFail = TRUE]
    /\ UNCHANGED <<variant, urls, codeStatus, log, tokenLog>>
    /\ UNCHANGED <<sigVars, jwtVars, idVars, implVars, cookieVars, decVars, b64Vars, googleVars, localVars>>

\* client.getToken only: releases of google-auth-library that send the
\* token request with the HTTP client's retry switched on repeat a request
\* that got no response, at most NoResponseRetries times; other releases
\* reject at once (NetworkFail)
LibraryRetry(i) ==
    /\ variant = "library"
    /\ attempts[i].pc = "sent"
    /\ attempts[i].requests <= NoResponseRetries
    /\ attempts' = [attempts EXCEPT ![i].requests = @ + 1, ![i].netFail = TRUE]
    /\ UNCHANGED <<variant, urls, codeStatus, log, tokenLog>>
    /\ UNCHANGED <<sigVars, jwtVars, idVars, implVars, cookieVars, decVars, b64Vars, googleVars, localVars>>

\* the function resumes after the awaited response
Resume(i) ==
    /\ attempts[i].pc = "responded"
    /\ LET r == Continue(variant, attempts[i].data, now)
       IN /\ attempts' = [attempts EXCEPT ![i].pc = r.pc,
                                          ![i].userData = r.userData,
                                          ![i].verifierCalled = r.verifierCalled]
          /\ log' = log \cup r.logged
          /\ tokenLog' = tokenLog \cup r.printed
    /\ UNCHANGED <<variant, urls, codeStatus>>
    /\ UNCHANGED <<sigVars, jwtVars, idVars, implVars, cookieVars, decVars, b64Vars, googleVars, localVars>>

Next ==
    \/ GenerateGoogleAuthUrl
    \/ \E i \in 1..MaxAttempts, r \in 1..MaxUrls, c \in Codes, st \in CallbackStates :
         Callback(i, r, c, st)
    \/ \E i \in 1..MaxAttempts : TokenEndpoint(i)
    \/ \E i \in 1..MaxAttempts : NetworkFail(i)
    \/ \E i \in 1..MaxAttempts : LibraryRetry(i)
    \/ \E i \in 1..MaxAttempts : Resume(i)

(***************************************************************************)
(* JWT cookie middleware (part_007) on jsonwebtoken.                       *)
(***************************************************************************)
\* process.env.JWT_SECRET, taken to be set
JWT_SECRET == "jwt_secret"

ClockTolerance == 0           \* jwt.verify is called without clockTolerance

OneDay == 86400               \* expiresIn: "1d"

\* algorithms jwt.verify allows for a secret given as a string
HmacAlgs == {"HS256", "HS384", "HS512"}

\* a token on the wire.  kind: "jwt" (three segments that decode),
\* "malformed" (not three segments), "badjson" (segments that do not decode).
\* The signature is absent (sigKey = None) or an HMAC under sigAlg and sigKey;
\* intact says that header and payload are the bytes that were signed.
Jwt(alg, sigAlg, sigKey, intact, exp) ==
    [kind |-> "jwt", alg |-> alg, sigAlg |-> sigAlg, sigKey |-> sigKey,
     intact |-> intact, exp |-> exp, name |-> "user-1"]

NoJwt == [Jwt(None, None, None, FALSE, NoTime) EXCEPT !.kind = None, !.name = None]

MalformedJwt == [NoJwt EXCEPT !.kind = "malformed"]

BadJsonJwt == [NoJwt EXCEPT !.kind = "badjson"]

\* jwt.sign(payload, secret, {expiresIn}) at time t: HS256 by default; name
\* stands for the claims {id, name, email} of the payload
jwtSign(claims, secret, expiresIn, t) ==
    [Jwt("HS256", "HS256", secret, TRUE, t + expiresIn) EXCEPT !.name = claims]

\* jws.verify(token, alg, secret)
SigValid(tok, secret) ==
    tok.sigKey = secret /\ tok.sigAlg = tok.alg /\ tok.intact

\* jsonwebtoken: "jwt expired" when clockTimestamp >= exp + clockTolerance
ExpOk(exp, t, tol) == ~(t >= exp + tol)

\* jwt.decode: the payload, whatever the signature
jwtDecode(tok, secret, t) ==
    IF tok.kind = "malformed" THEN [ok |-> FALSE, err |-> "jwt malformed", name |-> None]
    ELSE IF tok.kind = "badjson" THEN [ok |-> FALSE, err |-> "invalid token", name |-> None]
    ELSE [ok |-> TRUE, err |-> None, name |-> tok.name]

\* jwt.verify(token, secret, {ignoreExpiration}): the decoded payload, or the
\* error thrown
jwtVerifyWith(tok, secret, t, ignoreExpiration) ==
    IF tok.kind = "malformed" THEN [ok |-> FALSE, err |-> "jwt malformed", name |-> None]
    ELSE IF tok.kind = "badjson" THEN [ok |-> FALSE, err |-> "invalid token", name |-> None]
    ELSE IF tok.sigKey = None
         THEN [ok |-> FALSE, err |-> "jwt signature is required", name |-> None]
    ELSE IF tok.alg \notin HmacAlgs
         THEN [ok |-> FALSE, err |-> "invalid algorithm", name |-> None]
    ELSE IF ~SigValid(tok, secret)
         THEN [ok |-> FALSE, err |-> "invalid signature", name |-> None]
    ELSE IF ~ignoreExpiration /\ tok.exp # NoTime /\ ~ExpOk(tok.exp, t, ClockTolerance)
         THEN [ok |-> FALSE, err |-> "jwt expired", name |-> None]
    ELSE [ok |-> TRUE, err |-> None, name |-> tok.name]

\* jwt.verify(token, secret)
jwtVerify(tok, secret, t) == jwtVerifyWith(tok, secret, t, FALSE)

AuthOutcome(tok, t, decoded) ==
    IF decoded.ok
    THEN [outcome |-> "next", user |-> decoded.name, err |-> None, at |-> t, tok |-> tok]
    ELSE [outcome |-> "redirect", user |-> None, err |-> decoded.err, at |-> t, tok |-> tok]

\* an auth that reads the cookie with jwt.decode
authDecodeOnly(tok, t) ==
    IF tok = NoJwt
    THEN [outcome |-> "redirect", user |-> None, err |-> "no token", at |-> t, tok |-> tok]
    ELSE AuthOutcome(tok, t, jwtDecode(tok, jwtKey, t))

\* an auth that verifies with ignoreExpiration
authIgnoreExpiration(tok, t) ==
    IF tok = NoJwt
    THEN [outcome |-> "redirect", user |-> None, err |-> "no token", at |-> t, tok |-> tok]
    ELSE AuthOutcome(tok, t, jwtVerifyWith(tok, jwtKey, t, TRUE))

\* an auth that also consults a server-side record of ended sessions
authConsultsSession(tok, t) ==
    IF tok = NoJwt \/ ended
    THEN [outcome |-> "redirect", user |-> None, err |-> "no token", at |-> t, tok |-> tok]
    ELSE AuthOutcome(tok, t, jwtVerify(tok, jwtKey, t))

\* function auth(req, res, next)
auth(tok, t) ==
    IF tok = NoJwt
    THEN [outcome |-> "redirect", user |-> None, err |-> "no token", at |-> t, tok |-> tok]
    ELSE AuthOutcome(tok, t, jwtVerify(tok, jwtKey, t))

NoAuthResult ==
    [outcome |-> None, user |-> None, err |-> None, at |-> 0, tok |-> NoJwt]

\* expiry times of cookies a client may hold at time t
ExpChoices(t) == {t - 1, t, t + 1, t + 3600}

\* tokens a client may put into the cookie at time t: cookies this server
\* signed earlier, tokens signed with another key, tokens changed after
\* signing, tokens with other algorithms, and strings that are no token
ClientTokens(t) ==
    {Jwt("HS256", "HS256", JWT_SECRET, TRUE, e) : e \in ExpChoices(t) \cup {NoTime}}
      \cup {Jwt("HS256", "HS256", "attacker_key", TRUE, e) : e \in {t - 1, t + 3600}}
      \cup {Jwt("HS256", "HS256", JWT_SECRET, FALSE, e) : e \in {t - 1, t + 3600}}
      \cup {Jwt("HS384", "HS384", JWT_SECRET, TRUE, t + 3600),
            Jwt("HS384", "HS256", JWT_SECRET, TRUE, t + 3600),
            Jwt("none", None, None, TRUE, t + 3600),
            Jwt("RS256", "RS256", "attacker_key", TRUE, t + 3600),
            MalformedJwt, BadJsonJwt}

\* req.user as passport hands it to the callback route
Users == {"user-1", "user-2"}

\* values the operator may give JWT_SECRET
JwtSecrets == {JWT_SECRET, "jwt_secret_2"}

NoRotation == [old |-> None, at |-> NoTime]

JwtInit ==
    /\ now = 1
    /\ reqToken = NoJwt
    /\ authResult = NoAuthResult
    /\ jwtKey = JWT_SECRET
    /\ session = NoJwt
    /\ ended = FALSE
    /\ rotation = NoRotation

Tick ==
    /\ now < MaxNow
    /\ now' = now + 1
    /\ UNCHANGED <<reqToken, authResult, jwtKey, session, ended, rotation>>
    /\ UNCHANGED <<sigVars, exVars, idVars, implVars, cookieVars, decVars, b64Vars, googleVars, localVars>>

\* GET /auth/google/callback after passport has authenticated: jwt.sign and
\* res.cookie("token", token)
IssueCookie ==
    /\ \E user \in Users :
         /\ reqToken' = jwtSign(user, jwtKey, OneDay, now)
         /\ session' = reqToken'
    /\ ended' = FALSE
    /\ UNCHANGED <<now, authResult, jwtKey, rotation>>
    /\ UNCHANGED <<sigVars, exVars, idVars, implVars, cookieVars, decVars, b64Vars, googleVars, localVars>>

\* the client replaces its cookie
SetCookie ==
    /\ \E tok \in ClientTokens(now) : reqToken' = tok
    /\ UNCHANGED <<now, authResult, jwtKey, session, ended, rotation>>
    /\ UNCHANGED <<sigVars, exVars, idVars, implVars, cookieVars, decVars, b64Vars, googleVars, localVars>>

\* GET /logout: res.clearCookie("token")
Logout ==
    /\ reqToken' = NoJwt
    /\ ended' = (ended \/ (session # NoJwt /\ reqToken = session))
    /\ UNCHANGED <<now, authResult, jwtKey, session, rotation>>
    /\ UNCHANGED <<sigVars, exVars, idVars, implVars, cookieVars, decVars, b64Vars, googleVars, localVars>>

\* GET /dashboard: the auth middleware runs on req.cookies.token
Dashboard ==
    /\ authResult' = auth(reqToken, now)
    /\ UNCHANGED <<now, reqToken, jwtKey, session, ended, rotation>>
    /\ UNCHANGED <<sigVars, exVars, idVars, implVars, cookieVars, decVars, b64Vars, googleVars, localVars>>

JwtNext == Tick \/ IssueCookie \/ SetCookie \/ Logout \/ Dashboard

\* a request carries the token cookie of the last login again: the browser's
\* cookie, or a copy of it kept elsewhere
Present ==
    /\ session # NoJwt
    /\ reqToken' = session
    /\ UNCHANGED <<now, authResult, jwtKey, session, ended, rotation>>
    /\ UNCHANGED <<sigVars, exVars, idVars, implVars, cookieVars, decVars, b64Vars, googleVars, localVars>>

\* a day goes by (expiresIn: "1d")
DayPasses ==
    /\ now <= MaxNow
    /\ now' = now + OneDay
    /\ UNCHANGED <<reqToken, authResult, jwtKey, session, ended, rotation>>
    /\ UNCHANGED <<sigVars, exVars, idVars, implVars, cookieVars, decVars, b64Vars, googleVars, localVars>>

\* the operator rotates the key: JWT_SECRET gets a new value, which is the
\* one value jwt.sign and jwt.verify read from then on
Rotate ==
    /\ rotation = NoRotation
    /\ \E key \in JwtSecrets \ {jwtKey} : jwtKey' = key
    /\ rotation' = [old |-> jwtKey, at |-> now]
    /\ UNCHANGED <<now, reqToken, authResult, session, ended>>
    /\ UNCHANGED <<sigVars, exVars, idVars, implVars, cookieVars, decVars, b64Vars, googleVars, localVars>>

SessionNext ==
    Tick \/ DayPasses \/ IssueCookie \/ Present \/ Logout \/ Dashboard \/ Rotate

(***************************************************************************)
(* client.verifyIdToken applied to ID tokens of every shape.               *)
(***************************************************************************)
\* the time at which verifyIdToken is called
VerifyTime == 100000

IdTokenInputs ==
    {IdToken(sg, iss, aud[1], aud[2], VerifyTime - 10, e) :
        sg \in {"google", "attacker"},
        iss \in GoogleIssuers \cup {"https://idp.example"},
        aud \in {<<{clientId}, FALSE>>, <<{"other"}, FALSE>>,
                 <<{clientId, "other"}, TRUE>>, <<{"other"}, TRUE>>,
                 <<{clientId}, TRUE>>},
        e \in {VerifyTime - 301, VerifyTime - 300, VerifyTime + 3600}}

IdInit ==
    /\ idTok \in IdTokenInputs
    /\ idResult = None

\* verifyIdToken({idToken, audience: clientId})
VerifyIdTokenCall ==
    /\ idResult = None
    /\ idResult' = verifyIdToken(idTok, clientId, now)
    /\ UNCHANGED <<idTok, jwtVars>>
    /\ UNCHANGED <<sigVars, exVars, implVars, cookieVars, decVars, b64Vars, googleVars, localVars>>

(***************************************************************************)
(* Implicit-flow demo page (44_Hashing_in_NodeJS.md, script.js).           *)
(***************************************************************************)
RequestNonce == "123456"

\* ID tokens that may arrive in location.hash
HashTokens ==
    {[signer |-> sg, nonce |-> n, sub |-> u] :
        sg \in {"google", "attacker"}, n \in {RequestNonce, "999999", None},
        u \in {"user-1", "user-2"}}

\* JSON.parse(atob(idToken.split(".")[1]))
hashPayload(tok) == [nonce |-> tok.nonce, sub |-> tok.sub, signer |-> tok.signer]

\* location.hash without an id_token
NoHashToken == [signer |-> None, nonce |-> None, sub |-> None]

\* const authUrl of script.js
authUrl ==
    [response_type |-> "id_token",
     client_id |-> clientId,
     scope |-> {"openid", "email", "profile"},
     redirect_uri |-> "http://localhost:5500/index.html",
     state |-> None,
     nonce |-> RequestNonce]

ImplInit == shown = <<>> /\ links = <<>>

\* the page loads: script.js builds authUrl and puts it into the login
\* link; when location.hash carries an id_token, its payload is decoded and
\* written to #output
PageLoad ==
    /\ Len(links) < MaxLoads
    /\ links' = Append(links, authUrl)
    /\ \E tok \in HashTokens \cup {NoHashToken} :
         shown' = IF tok = NoHashToken THEN shown
                  ELSE Append(shown, hashPayload(tok))
    /\ UNCHANGED <<sigVars, exVars, jwtVars, idVars, cookieVars, decVars, b64Vars, googleVars, localVars>>

(***************************************************************************)
(* Manually signed cookie (part_010, "METHOD 2").  A cookie text is a      *)
(* sequence of symbols: a symbol is one character, or one whole base64     *)
(* digest (44 characters, none of them a dot) named by the key and the     *)
(* message it was computed from.                                           *)
(***************************************************************************)
Chr(c) == [c |-> c, k |-> None, m |-> <<>>]

Digest(key, msg) == [c |-> "digest", k |-> key, m |-> msg]

Dot == Chr(".")

\* function sign(value, secret): createHmac("sha256", secret).update(value)
\* .digest("base64")
sign(value, secret) == <<Digest(secret, value)>>

\* position of the first dot of s at or after position i, 0 when none
RECURSIVE IndexOfDot(_, _)
IndexOfDot(s, i) ==
    IF i > Len(s) THEN 0
    ELSE IF s[i] = Dot THEN i ELSE IndexOfDot(s, i + 1)

\* signedValue.split("."): the pieces between the dots, in order
RECURSIVE split(_)
split(s) ==
    LET d == IndexOfDot(s, 1)
    IN IF d = 0 THEN <<s>>
       ELSE <<SubSeq(s, 1, d - 1)>> \o split(SubSeq(s, d + 1, Len(s)))

Null == [null |-> TRUE, value |-> <<>>]

\* function verify(signedValue, secret): const [value, signature] =
\* signedValue.split("."); signature is undefined when there is no dot
verify(signedValue, secret) ==
    LET parts == split(signedValue)
    IN IF Len(parts) >= 2 /\ sign(parts[1], secret) = parts[2]
       THEN [null |-> FALSE, value |-> parts[1]]
       ELSE Null

\* `session=${value}.${signature}`
signedCookie(value, secret) == value \o <<Dot>> \o sign(value, secret)

\* symbols a cookie value is made of: characters, the dot, and digests of
\* short values (a value may quote an earlier cookie)
ValueSymbols ==
    {Chr("a"), Dot} \cup {Digest(k, w) : k \in Keys, w \in {<<>>, <<Chr("a")>>}}

CookieValues == SeqsUpTo(ValueSymbols, MaxValueLen)

NoCookie == [value |-> <<>>, key |-> None, text |-> <<>>]

NotVerified == [done |-> FALSE, result |-> Null]

CookieInit ==
    /\ cookieSecret \in Keys
    /\ cookieIn = NoCookie
    /\ cookieOut = NotVerified

\* a cookie is made for a value under a key: by this server under
\* process.env.SECRET, or by someone holding another key
SetSignedCookie ==
    /\ ~cookieOut.done
    /\ \E value \in CookieValues, key \in Keys :
         cookieIn' = [value |-> value, key |-> key,
                      text |-> signedCookie(value, key)]
    /\ UNCHANGED <<cookieSecret, cookieOut>>
    /\ UNCHANGED <<sigVars, exVars, jwtVars, idVars, implVars, decVars, b64Vars, googleVars, localVars>>

\* a request presents the cookie: verify(signedValue, process.env.SECRET)
VerifyCookie ==
    /\ cookieIn # NoCookie
    /\ ~cookieOut.done
    /\ cookieOut' = [done |-> TRUE, result |-> verify(cookieIn.text, cookieSecret)]
    /\ UNCHANGED <<cookieSecret, cookieIn>>
    /\ UNCHANGED <<sigVars, exVars, jwtVars, idVars, implVars, decVars, b64Vars, googleVars, localVars>>

CookieNext == SetSignedCookie \/ VerifyCookie

(***************************************************************************)
(* Decoding an ID token by hand: fetchIdToken reads the payload with       *)
(* JSON.parse(atob(data.id_token.split(".")[1])).  An id_token string is   *)
(* the sequence of its segments between the dots; a segment is named by    *)
(* what it holds.                                                          *)
(***************************************************************************)
\* "obj": base64 text of a JSON object that uses neither "-" nor "_";
\* "objUrl": base64url text of a JSON object that uses "-" or "_";
\* "text": base64 text of something that is not JSON; "bad": characters
\* outside both alphabets; "empty": nothing between two dots
SegmentKinds == {"obj", "objUrl", "text", "bad", "empty"}

Wires == SeqsUpTo(SegmentKinds, MaxSegments)

\* atob(x): the decoded text, or InvalidCharacterError; atob knows the
\* base64 alphabet only, and atob(undefined) reads the nine characters of
\* "undefined", which is no base64 text
atob(seg) ==
    CASE seg = "undefined" -> "InvalidCharacterError"
      [] seg \in {"bad", "objUrl"} -> "InvalidCharacterError"
      [] seg = "empty" -> "empty text"
      [] seg = "text" -> "other text"
      [] OTHER -> "JSON text"

\* JSON.parse(x)
JSONparse(text) ==
    IF text = "JSON text" THEN "payload" ELSE "SyntaxError"

\* data.id_token.split(".")[1]
secondSegment(w) == IF Len(w) >= 2 THEN w[2] ELSE "undefined"

\* const userToken = data.id_token.split(".")[1];
\* const userData = JSON.parse(atob(userToken));
decodeUserData(w) ==
    LET text == atob(secondSegment(w))
    IN IF text = "InvalidCharacterError" THEN text ELSE JSONparse(text)

DecInit == wire \in Wires /\ decodedData = None

DecodeCall ==
    /\ decodedData = None
    /\ decodedData' = decodeUserData(wire)
    /\ UNCHANGED wire
    /\ UNCHANGED <<sigVars, exVars, jwtVars, idVars, implVars, cookieVars, b64Vars, googleVars, localVars>>

DecIdle == wire = <<>> /\ decodedData = None

(***************************************************************************)
(* base64url in 52_JWT.mjs: a token is base64url(header) "." base64url     *)
(* (payload) "." base64url(signature); the demo decodes the first two      *)
(* segments with one Buffer.from(text, "base64url").toString().  A text is *)
(* a sequence of characters given by their 6-bit values, the dot by        *)
(* DotCode.                                                                *)
(***************************************************************************)
ByteValues == {65, 123}

DotCode == 64

\* the bits of n, most significant first, in a field of the given width
BitsOf(n, width) == [i \in 1..width |-> (n \div Pow(2, width - i)) % 2]

RECURSIVE ValueOf(_)
ValueOf(bits) ==
    IF bits = <<>> THEN 0
    ELSE 2 * ValueOf(SubSeq(bits, 1, Len(bits) - 1)) + bits[Len(bits)]

RECURSIVE ConcatBits(_, _)
ConcatBits(numbers, width) ==
    IF numbers = <<>> THEN <<>>
    ELSE BitsOf(Head(numbers), width) \o ConcatBits(Tail(numbers), width)

\* the groups of the given width that bits is made of; a last, shorter
\* group is filled with zeros when pad is set and dropped otherwise
RECURSIVE Groups(_, _, _)
Groups(bits, width, pad) ==
    IF bits = <<>> THEN <<>>
    ELSE IF Len(bits) >= width
         THEN <<ValueOf(SubSeq(bits, 1, width))>>
                \o Groups(SubSeq(bits, width + 1, Len(bits)), width, pad)
    ELSE IF pad
         THEN <<ValueOf(bits \o [i \in 1..(width - Len(bits)) |-> 0])>>
    ELSE <<>>

\* bytes.toString("base64url"): no padding characters
base64url(bytes) == Groups(ConcatBits(bytes, 8), 6, TRUE)

\* Buffer.from(text, "base64url"): characters outside the alphabet are
\* skipped, the remaining ones are read six bits each
BufferFromBase64url(text) ==
    Groups(ConcatBits(SelectSeq(text, LAMBDA c : c # DotCode), 6), 8, FALSE)

\* header.payload.signature
encode(header, payloadBytes, signature) ==
    base64url(header) \o <<DotCode>> \o base64url(payloadBytes)
      \o <<DotCode>> \o base64url(signature)

\* position of the n-th dot of text, 0 when there is none
RECURSIVE NthDot(_, _, _)
NthDot(text, n, i) ==
    IF i > Len(text) THEN 0
    ELSE IF text[i] = DotCode
         THEN IF n = 1 THEN i ELSE NthDot(text, n - 1, i + 1)
    ELSE NthDot(text, n, i + 1)

\* the text the signature is computed over and the demo decodes: the token
\* up to its second dot
signingInput(token) == SubSeq(token, 1, NthDot(token, 2, 1) - 1)

ByteStrings == SeqsUpTo(ByteValues, MaxBytes) \ {<<>>}

NotDecoded == [done |-> FALSE, text |-> <<>>]

B64Init ==
    /\ triple \in [header : ByteStrings, payload : ByteStrings, signature : ByteStrings]
    /\ plain = NotDecoded

\* Buffer.from("<header>.<payload>", "base64url").toString()
DecodeBase64url ==
    /\ ~plain.done
    /\ plain' = [done |-> TRUE,
                 text |-> BufferFromBase64url(
                            signingInput(encode(triple.header, triple.payload,
                                                triple.signature)))]
    /\ UNCHANGED triple
    /\ UNCHANGED <<sigVars, exVars, jwtVars, idVars, implVars, cookieVars, decVars, googleVars, localVars>>

B64Idle ==
    /\ triple = [header |-> <<>>, payload |-> <<>>, signature |-> <<>>]
    /\ plain = NotDecoded

(***************************************************************************)
(* Google login with passport and a JWT cookie (part_007): the strategy's  *)
(* verify callback keeps the users list, the callback route signs the      *)
(* cookie for the user the strategy returned.                              *)
(***************************************************************************)
GoogleIds == {"g-1", "g-2", "g-3"}

Emails == {"a@x", "b@x"}

\* profiles passport-google-oauth20 may hand over: profile.emails is absent
\* or holds one address
Profiles == [id : GoogleIds, email : Emails \cup {None}, displayName : Users]

NoProfile == [id |-> None, email |-> None, displayName |-> None]

\* done(null, false)
NoGoogleUser == [id |-> 0, googleId |-> None, name |-> None, email |-> None]

NotCalled == [called |-> FALSE, profile |-> NoProfile, user |-> NoGoogleUser]

\* the first of the users at the given positions, as users.find gives it
FirstOf(us, hits) ==
    IF hits = {} THEN NoGoogleUser
    ELSE us[CHOOSE i \in hits : \A j \in hits : i <= j]

\* users.find((u) => u.googleId === profile.id)
FindGoogleId(us, googleId) ==
    FirstOf(us, {i \in 1..Len(us) : us[i].googleId = googleId})

\* users.find((u) => u.email === email)
FindEmail(us, email) ==
    FirstOf(us, {i \in 1..Len(us) : us[i].email = email})

\* an async callback that skips the emailExists test
verifyCallbackNoEmailCheck(us, profile) ==
    IF profile.email = None
    THEN [users |-> us, user |-> NoGoogleUser]
    ELSE LET user == FindGoogleId(us, profile.id)
             created == [id |-> Len(us) + 1, googleId |-> profile.id,
                         name |-> profile.displayName, email |-> profile.email]
         IN IF user # NoGoogleUser THEN [users |-> us, user |-> user]
            ELSE [users |-> Append(us, created), user |-> created]

\* async (accessToken, refreshToken, profile, done): the users list after
\* the call and the user passed to done
verifyCallback(us, profile) ==
    IF profile.email = None
    THEN [users |-> us, user |-> NoGoogleUser]
    ELSE LET user == FindGoogleId(us, profile.id)
             emailExists == FindEmail(us, profile.email)
             created == [id |-> Len(us) + 1, googleId |-> profile.id,
                         name |-> profile.displayName, email |-> profile.email]
         IN IF user # NoGoogleUser THEN [users |-> us, user |-> user]
            ELSE IF emailExists # NoGoogleUser
                 THEN [users |-> us, user |-> NoGoogleUser]
            ELSE [users |-> Append(us, created), user |-> created]

GoogleInit == users = <<>> /\ done = NotCalled

\* GET /auth/google/callback: passport runs the strategy callback; with a
\* user the route signs the JWT and sets the cookie, without one passport
\* redirects to /login-error and the route handler does not run
GoogleCallback ==
    \E profile \in Profiles :
      LET r == verifyCallback(users, profile)
      IN /\ users' = r.users
         /\ done' = [called |-> TRUE, profile |-> profile, user |-> r.user]
         /\ IF r.user # NoGoogleUser
            THEN /\ reqToken' = jwtSign(r.user.name, jwtKey, OneDay, now)
                 /\ session' = reqToken'
                 /\ ended' = FALSE
            ELSE UNCHANGED <<reqToken, session, ended>>
         /\ UNCHANGED <<now, authResult, jwtKey, rotation>>
         /\ UNCHANGED <<sigVars, exVars, idVars, implVars, cookieVars, decVars, b64Vars, localVars>>

GoogleIdle == GoogleInit

(***************************************************************************)
(* passport-local with express-session (passport.js).  The session store   *)
(* maps a session id to the user id passport serialized into it, 0 when    *)
(* the session does not exist; the browser holds one session id.           *)
(***************************************************************************)
LocalUsers == <<[id |-> 1, username |-> "admin", password |-> "1234"]>>

Usernames == {"admin", "guest"}

Passwords == {"1234", "0000"}

NoLocalUser == [id |-> 0, username |-> None, password |-> None]

\* the first of the users at the given positions, as users.find gives it
FirstLocal(hits) ==
    IF hits = {} THEN NoLocalUser
    ELSE LocalUsers[CHOOSE i \in hits : \A j \in hits : i <= j]

\* new LocalStrategy((username, password, done) => ...): the user passed
\* to done, NoLocalUser for done(null, false)
LocalStrategy(username, password) ==
    LET user == FirstLocal({i \in 1..Len(LocalUsers) : LocalUsers[i].username = username})
    IN IF user = NoLocalUser THEN NoLocalUser
       ELSE IF user.password # password THEN NoLocalUser
       ELSE user

\* passport.serializeUser
serializeUser(user) == user.id

\* passport.deserializeUser
deserializeUser(id) == FirstLocal({i \in 1..Len(LocalUsers) : LocalUsers[i].id = id})

\* req.isAuthenticated() for a request with session id s
isAuthenticated(st, s) ==
    s # 0 /\ st[s] # 0 /\ deserializeUser(st[s]) # NoLocalUser

\* session.regenerate after a login: the old session is destroyed, the
\* user id is written into a new one
login(st, s, new, user) ==
    [x \in DOMAIN st |->
       IF x = new THEN serializeUser(user) ELSE IF x = s THEN 0 ELSE st[x]]

\* a logout that leaves the session in the store
logoutKeepsSession(st, s) == st

\* req.logout(cb): passport.user is removed and the session regenerated
logout(st, s) == [x \in DOMAIN st |-> IF x = s THEN 0 ELSE st[x]]

Request(route, username, password, ok, new) ==
    [route |-> route, sid |-> sid, username |-> username, password |-> password,
     ok |-> ok, newSid |-> new]

LocalInit ==
    /\ store = [x \in 1..MaxRequests |-> 0]
    /\ sid = 0
    /\ issued = 0
    /\ requests = <<>>

\* POST /login: passport.authenticate("local", {successRedirect,
\* failureRedirect})
PostLogin ==
    /\ Len(requests) < MaxRequests
    /\ \E username \in Usernames, password \in Passwords :
         LET user == LocalStrategy(username, password)
         IN IF user # NoLocalUser
            THEN /\ store' = login(store, sid, issued + 1, user)
                 /\ sid' = issued + 1
                 /\ issued' = issued + 1
                 /\ requests' = Append(requests,
                                  Request("login", username, password, TRUE, issued + 1))
            ELSE /\ requests' = Append(requests,
                                  Request("login", username, password, FALSE, 0))
                 /\ UNCHANGED <<store, sid, issued>>
    /\ UNCHANGED <<sigVars, exVars, jwtVars, idVars, implVars, cookieVars, decVars, b64Vars, googleVars>>

\* GET /dashboard behind isAuthenticated
LocalDashboard ==
    /\ Len(requests) < MaxRequests
    /\ requests' = Append(requests,
                     Request("dashboard", None, None, isAuthenticated(store, sid), 0))
    /\ UNCHANGED <<store, sid, issued>>
    /\ UNCHANGED <<sigVars, exVars, jwtVars, idVars, implVars, cookieVars, decVars, b64Vars, googleVars>>

\* GET /logout
LocalLogout ==
    /\ Len(requests) < MaxRequests
    /\ store' = logout(store, sid)
    /\ requests' = Append(requests, Request("logout", None, None, TRUE, 0))
    /\ UNCHANGED <<sid, issued>>
    /\ UNCHANGED <<sigVars, exVars, jwtVars, idVars, implVars, cookieVars, decVars, b64Vars, googleVars>>

\* the browser sends another session cookie it has held, or none
PresentSession ==
    /\ \E s \in 0..issued : s # sid /\ sid' = s
    /\ UNCHANGED <<store, issued, requests>>
    /\ UNCHANGED <<sigVars, exVars, jwtVars, idVars, implVars, cookieVars, decVars, b64Vars, googleVars>>

LocalIdle == LocalInit

\* the parts of the state a specification does not use
SigIdle == SECRET = "super_secret_key" /\ payload = <<>> /\ recvSig = <<>> /\ sigResult = None

ExIdle ==
    /\ variant = "service"
    /\ urls = <<>>
    /\ codeStatus = [c \in Codes |-> "valid"]
    /\ attempts = [i \in 1..MaxAttempts |-> IdleAttempt]
    /\ log = {}
    /\ tokenLog = {}

JwtIdle == JwtInit

IdIdle == idTok = NoToken /\ idResult = None

ImplIdle == ImplInit

CookieIdle == cookieSecret = "super_secret_key" /\ cookieIn = NoCookie /\ cookieOut = NotVerified

Init == SigIdle /\ ExInit /\ JwtIdle /\ IdIdle /\ ImplIdle /\ CookieIdle /\ DecIdle
    /\ B64Idle /\ GoogleIdle /\ LocalIdle

Spec == Init /\ [][Next]_vars

SigNext == VerifyCall

InitSig == SigInit /\ ExIdle /\ JwtIdle /\ IdIdle /\ ImplIdle /\ CookieIdle /\ DecIdle
    /\ B64Idle /\ GoogleIdle /\ LocalIdle

SpecSig == InitSig /\ [][SigNext]_vars

InitJwt == SigIdle /\ ExIdle /\ JwtInit /\ IdIdle /\ ImplIdle /\ CookieIdle /\ DecIdle
    /\ B64Idle /\ GoogleIdle /\ LocalIdle

SpecJwt == InitJwt /\ [][JwtNext]_vars

InitIdToken ==
    /\ SigIdle /\ ExIdle /\ ImplIdle /\ CookieIdle /\ DecIdle /\ B64Idle /\ GoogleIdle /\ LocalIdle
    /\ now = VerifyTime /\ reqToken = NoJwt /\ authResult = NoAuthResult
    /\ jwtKey = JWT_SECRET /\ session = NoJwt /\ ended = FALSE
    /\ rotation = NoRotation
    /\ IdInit

IdTokenNext == VerifyIdTokenCall

SpecIdToken == InitIdToken /\ [][IdTokenNext]_vars

InitImplicit == SigIdle /\ ExIdle /\ JwtIdle /\ IdIdle /\ ImplInit /\ CookieIdle /\ DecIdle
    /\ B64Idle /\ GoogleIdle /\ LocalIdle

ImplicitNext == PageLoad

SpecImplicit == InitImplicit /\ [][ImplicitNext]_vars

InitSession == SigIdle /\ ExIdle /\ JwtInit /\ IdIdle /\ ImplIdle /\ CookieIdle /\ DecIdle
    /\ B64Idle /\ GoogleIdle /\ LocalIdle

SpecSession == InitSession /\ [][SessionNext]_vars

InitCookie ==
    SigIdle /\ ExIdle /\ JwtIdle /\ IdIdle /\ ImplIdle /\ CookieInit /\ DecIdle
      /\ B64Idle /\ GoogleIdle /\ LocalIdle

InitDecode ==
    SigIdle /\ ExIdle /\ JwtIdle /\ IdIdle /\ ImplIdle /\ CookieIdle /\ DecInit
      /\ B64Idle /\ GoogleIdle /\ LocalIdle

DecodeNext == DecodeCall

SpecDecode == InitDecode /\ [][DecodeNext]_vars

InitBase64 ==
    SigIdle /\ ExIdle /\ JwtIdle /\ IdIdle /\ ImplIdle /\ CookieIdle /\ DecIdle
      /\ B64Init /\ GoogleIdle /\ LocalIdle

Base64Next == DecodeBase64url

SpecBase64 == InitBase64 /\ [][Base64Next]_vars

InitGoogle ==
    SigIdle /\ ExIdle /\ JwtInit /\ IdIdle /\ ImplIdle /\ CookieIdle /\ DecIdle
      /\ B64Idle /\ GoogleInit /\ LocalIdle

GoogleNext == GoogleCallback \/ Tick \/ Logout \/ Dashboard

SpecGoogle == InitGoogle /\ [][GoogleNext]_vars

InitLocal ==
    SigIdle /\ ExIdle /\ JwtIdle /\ IdIdle /\ ImplIdle /\ CookieIdle /\ DecIdle
      /\ B64Idle /\ GoogleIdle /\ LocalInit

LocalNext == PostLogin \/ LocalDashboard \/ LocalLogout \/ PresentSession

SpecLocal == InitLocal /\ [][LocalNext]_vars

SpecCookie == InitCookie /\ [][CookieNext]_vars

(***************************************************************************)
(* Properties.                                                             *)
(***************************************************************************)
Started == {i \in 1..MaxAttempts : attempts[i].pc # "idle"}

Finished == {i \in 1..MaxAttempts : attempts[i].pc \in {"returned", "threw"}}

\* C1: no token-endpoint request is issued for a callback whose received
\* state differs from the state of the authorization request it answers.
C1_StateCheckedBeforeTokenRequest ==
    \A i \in Started : attempts[i].state = urls[attempts[i].req].state

C3_UserDataOnlyAfterVerification ==
    \A i \in 1..MaxAttempts :
      /\ attempts[i].userData # NoUser =>
           /\ attempts[i].data.status = "tokens"
           /\ verifyIdToken(attempts[i].data.id_token, clientId, now) = "SUCCESS"
           /\ variant # "browser"
      /\ (i \in Finished /\ attempts[i].data.status = "tokens"
            /\ verifyIdToken(attempts[i].data.id_token, clientId, now) # "SUCCESS")
           => attempts[i].userData = NoUser

C3_Witness ==
    /\ variant = "service"
    /\ \E i, j \in Finished :
         /\ attempts[i].userData # NoUser
         /\ attempts[j].data.status = "tokens"
         /\ attempts[j].data.id_token.signer = "attacker"
         /\ attempts[j].pc = "threw"

\* C4: no authorization request is matched by more than one callback.
C4_RequestConsumedAtMostOnce ==
    \A r \in 1..Len(urls) :
      Cardinality({i \in Started : attempts[i].req = r}) <= 1

VerifiedAt == authResult.at

VerifiedTok == authResult.tok

\* C5: the verifier ends in SUCCESS or in a rejection; a token that does not
\* decode is rejected as malformed; a token whose signature does not verify
\* under the key is rejected for its signature, before its claims are looked
\* at; SUCCESS is reached only for a token whose signature verifies and whose
\* expiry check passes, and req.user is then the decoded payload.
C5_VerifierStateMachine ==
    authResult.outcome # None =>
      /\ authResult.outcome \in {"next", "redirect"}
      /\ VerifiedTok.kind \in {"malformed", "badjson"} =>
           /\ authResult.outcome = "redirect"
           /\ authResult.err \in {"jwt malformed", "invalid token"}
      /\ (VerifiedTok.kind = "jwt" /\ VerifiedTok.sigKey # None
            /\ VerifiedTok.alg \in HmacAlgs /\ ~SigValid(VerifiedTok, JWT_SECRET)) =>
           /\ authResult.outcome = "redirect"
           /\ authResult.err = "invalid signature"
      /\ authResult.outcome = "next" =>
           /\ VerifiedTok.kind = "jwt"
           /\ SigValid(VerifiedTok, JWT_SECRET)
           /\ VerifiedTok.exp = NoTime \/ VerifiedTok.exp > VerifiedAt - ClockTolerance
           /\ authResult.user = VerifiedTok.name
           /\ authResult.err = None
      /\ authResult.outcome = "redirect" => authResult.user = None /\ authResult.err # None

C5_Witness ==
    /\ authResult.outcome = "next"
    /\ authResult.user = "user-1"
    /\ VerifiedTok.exp = VerifiedAt + 1

\* C6: a token that decodes and whose signature verifies passes exactly when
\* exp > now - tolerance; with tolerance 0 a token with exp = now - 1 is
\* rejected as expired and one with exp = now + 3600 is accepted.
C6_ExpiryStrict ==
    (/\ authResult.outcome # None
     /\ VerifiedTok.kind = "jwt"
     /\ VerifiedTok.alg \in HmacAlgs
     /\ SigValid(VerifiedTok, JWT_SECRET)
     /\ VerifiedTok.exp # NoTime) =>
      /\ authResult.outcome = "next" <=> VerifiedTok.exp > VerifiedAt - ClockTolerance
      /\ authResult.outcome = "redirect" => authResult.err = "jwt expired"
      /\ (ClockTolerance = 0 /\ VerifiedTok.exp = VerifiedAt - 1) =>
           authResult.err = "jwt expired"
      /\ VerifiedTok.exp = VerifiedAt + 3600 => authResult.outcome = "next"

C6_Witness ==
    /\ authResult.outcome = "redirect"
    /\ authResult.err = "jwt expired"
    /\ VerifiedTok.exp = VerifiedAt

\* the checks of verifyIdToken other than issuer and audience pass
OtherChecksPass(tok, t) ==
    /\ tok.wellFormed
    /\ tok.signer = "google"
    /\ tok.exp < t + MAX_TOKEN_LIFETIME_SECS
    /\ t >= tok.iat - CLOCK_SKEW_SECS
    /\ t <= tok.exp + CLOCK_SKEW_SECS

\* C7: a token is accepted only if iss is a trusted issuer and aud contains
\* the client identifier; a token that passes the other checks with
\* aud = ["client-123", "other"] is accepted, one with aud = ["other"] is
\* rejected for its audience.
C7_IssuerAndAudienceContainment ==
    idResult # None =>
      /\ idResult = "SUCCESS" => idTok.iss \in GoogleIssuers /\ clientId \in idTok.aud
      /\ (OtherChecksPass(idTok, now) /\ idTok.iss \in GoogleIssuers) =>
           IF clientId \in idTok.aud
           THEN idResult = "SUCCESS"
           ELSE idResult = "Wrong recipient, payload audience != requiredAudience"

\* C8: with a nonce in the authorization request, an ID token is accepted
\* only if its nonce claim equals that nonce, and the nonce is matched by at
\* most one ID token.
C8_NonceMatchedOnce ==
    /\ \A i \in 1..Len(shown) : shown[i].nonce = RequestNonce
    /\ Cardinality({i \in 1..Len(shown) : shown[i].nonce = RequestNonce}) <= 1

\* C9: verifySignature returns true for the signature of the payload under
\* SECRET, and returns false when one character of the signature or of the
\* payload has been changed.
C9_SignThenVerify ==
    sigResult # None =>
      /\ recvSig = HmacHex(SECRET, payload) => sigResult = "true"
      /\ recvSig \in OneCharChanges(HmacHex(SECRET, payload), SigChars) =>
           sigResult = "false"
      /\ (\E q \in OneCharChanges(payload, PChars) : recvSig = HmacHex(SECRET, q)) =>
           sigResult = "false"

\* C10: verifySignature never throws; a received signature whose length
\* differs from the expected signature's is answered with false.
C10_VerifyNeverThrows ==
    sigResult # None =>
      /\ sigResult \in {"true", "false"}
      /\ Len(recvSig) # Len(HmacHex(SECRET, payload)) => sigResult = "false"

\* the algorithm the issuer signs with: jwt.sign's default, HS256
ProvisionedAlg == "HS256"

\* C11: the algorithm applied in verification is the one the key was
\* provisioned for, whatever the token's header declares: a token whose
\* header declares another algorithm is never admitted.
C11_AlgorithmFromKeyAlone ==
    authResult.outcome = "next" => VerifiedTok.alg = ProvisionedAlg

\* C12: a token signed with one key is rejected when it is verified under
\* a different key.
C12_OtherKeyRejected ==
    (cookieOut.done /\ cookieIn.key # cookieSecret) => cookieOut.result = Null

\* C13: after the key has been rotated, a session signed with the old key
\* still verifies while the old key is inside its grace window (it is at
\* the moment of the rotation), and new sessions are signed with the one
\* current key.
C13_OldKeyVerifiesInGraceWindow ==
    /\ (/\ rotation # NoRotation
        /\ authResult.outcome # None
        /\ VerifiedAt = rotation.at
        /\ VerifiedTok = session
        /\ session.sigKey = rotation.old) => authResult.outcome = "next"
    /\ (session # NoJwt /\ rotation = NoRotation) => session.sigKey = jwtKey

\* C15: a session artifact that is verified right after it was issued, under
\* the secret it was issued under, yields the value it was issued for,
\* whatever that value is.
C15_IssueThenVerify ==
    (cookieOut.done /\ cookieIn.key = cookieSecret) =>
      cookieOut.result = [null |-> FALSE, value |-> cookieIn.value]

\* C16: once GET /logout has been requested with a session's cookie, or the
\* session's expiry has passed, no later request that presents that cookie
\* is admitted to /dashboard.
C16_NoAdmissionAfterLogoutOrExpiry ==
    [][(/\ session # NoJwt
        /\ reqToken = session
        /\ ended \/ now >= session.exp
        /\ authResult' # authResult) => authResult'.outcome # "next"]_vars

\* C17: every authorization URL that is built has response_type "code" and
\* carries client_id, a scope that includes openid, redirect_uri, state and
\* nonce.
C17_AuthorizationUrlShape ==
    \A i \in 1..Len(urls) :
      /\ urls[i].response_type = "code"
      /\ urls[i].client_id # None
      /\ "openid" \in urls[i].scope
      /\ urls[i].redirect_uri # None
      /\ urls[i].state # None
      /\ urls[i].nonce # None

\* C18: no state value and no nonce value is put into two authorization
\* URLs (a URL without a state repeats no state value).
C18_StateAndNonceFresh ==
    \A i, j \in 1..Len(links) :
      i # j =>
        /\ links[i].nonce # links[j].nonce
        /\ links[i].state = None \/ links[i].state # links[j].state

\* C19: when the token endpoint answers an attempt with an error, no further
\* token request is sent for that attempt, verifyIdToken is not invoked, no
\* user data is returned, and the call ends as a failed exchange: it throws
\* (client.getToken) or returns nothing after logging the provider's error.
C19_ProviderErrorIsTerminal ==
    /\ [](\A i \in 1..MaxAttempts :
            attempts[i].data.status = "error" =>
              /\ ~attempts[i].verifierCalled
              /\ attempts[i].userData = NoUser
              /\ i \in Finished =>
                   IF variant = "library" THEN attempts[i].pc = "threw"
                   ELSE attempts[i].pc = "returned" /\ "Error occurred" \in log)
    /\ [][\A i \in 1..MaxAttempts :
            attempts[i].data.status = "error" =>
              attempts'[i].requests = attempts[i].requests]_vars

C19_Witness ==
    /\ variant = "service"
    /\ \E i \in Finished :
         /\ attempts[i].data.status = "error"
         /\ attempts[i].pc = "returned"
         /\ attempts[i].requests = 1
         /\ "Error occurred" \in log

\* C20: a token request that fails on the network is sent again before the
\* call gives up: no call ends on a network failure after a single request.
C20_NetworkFailureRetried ==
    \A i \in 1..MaxAttempts :
      (attempts[i].netFail /\ attempts[i].pc = "threw") =>
        attempts[i].requests > 1

\* the attempts that ended in a failure: the request failed on the network,
\* the provider answered with an error, or the ID token does not verify
Failed ==
    {i \in Finished :
       \/ attempts[i].netFail /\ attempts[i].data.status = None
       \/ attempts[i].data.status = "error"
       \/ /\ attempts[i].data.status = "tokens"
          /\ verifyIdToken(attempts[i].data.id_token, clientId, now) # "SUCCESS"}

\* C21: every failed login attempt is handed back to the caller as a return
\* value without user data, the same for every kind of failure; none leaves
\* the function as an exception.
C21_FailureIsReturnedNotThrown ==
    \A i \in Failed :
      attempts[i].pc = "returned" /\ attempts[i].userData = NoUser

\* C22: no ID token obtained from the exchange is ever written to the log.
C22_IdTokenNeverLogged == tokenLog = {}

\* an id_token string of exactly three non-empty base64url segments whose
\* header and payload hold JSON objects
WellFormedWire(w) ==
    /\ Len(w) = 3
    /\ w[1] \in {"obj", "objUrl"}
    /\ w[2] \in {"obj", "objUrl"}
    /\ w[3] \in {"obj", "objUrl", "text"}

\* C23: for a string that is not three non-empty base64url segments with
\* well-formed header and payload, decoding fails and returns no payload.
C23_MalformedNeverDecodes ==
    (decodedData # None /\ ~WellFormedWire(wire)) => decodedData # "payload"

\* C24: decoding an encoded token gives back what was encoded: the text
\* decoded from the first two segments is the header followed by the
\* payload, and the signing input is the first two segments joined by the
\* dot, exactly as they stand in the token.
C24_DecodeEncodeRoundTrip ==
    plain.done =>
      /\ plain.text = triple.header \o triple.payload
      /\ signingInput(encode(triple.header, triple.payload, triple.signature))
           = base64url(triple.header) \o <<DotCode>> \o base64url(triple.payload)

\* the inputs of the last verification are the present ones: the same
\* token, the same time, and a key that has never changed
SameInputs ==
    /\ authResult.outcome # None
    /\ authResult.tok = reqToken
    /\ authResult.at = now
    /\ rotation = NoRotation

C26_SignedCookieRoundTrip ==
    cookieOut.done =>
      cookieOut.result = IF cookieIn.key = cookieSecret
                         THEN [null |-> FALSE, value |-> cookieIn.value]
                         ELSE Null

\* the cookie of the verified request is missing, tampered or expired
MissingToken == VerifiedTok = NoJwt

TamperedToken ==
    VerifiedTok.kind = "jwt" /\ (~VerifiedTok.intact \/ VerifiedTok.sigKey # JWT_SECRET)

ExpiredToken == VerifiedTok.exp # NoTime /\ VerifiedTok.exp <= VerifiedAt

\* C27: the /dashboard handler runs only for a request whose token cookie
\* is present and carries an intact signature under JWT_SECRET; for a
\* missing, tampered or expired token auth redirects, does not call next
\* and leaves req.user unset.
C27_DashboardOnlyWithVerifiedToken ==
    authResult.outcome # None =>
      /\ authResult.outcome = "next" =>
           /\ ~MissingToken
           /\ VerifiedTok.intact
           /\ VerifiedTok.sigKey = JWT_SECRET
      /\ (MissingToken \/ TamperedToken \/ ExpiredToken) =>
           /\ authResult.outcome = "redirect"
           /\ authResult.user = None

C27_Witness ==
    /\ authResult.outcome = "redirect"
    /\ TamperedToken
    /\ ~VerifiedTok.intact
    /\ ~ExpiredToken

\* no two users of the list share a googleId, an email or an id
UniqueUsers ==
    \A i, j \in 1..Len(users) :
      i # j => /\ users[i].googleId # users[j].googleId
               /\ users[i].email # users[j].email
               /\ users[i].id # users[j].id

\* the list holds a user with the profile's googleId
Known(profile) == \E i \in 1..Len(users) : users[i].googleId = profile.id

\* the list holds the profile's email under another googleId
EmailTaken(profile) ==
    \E i \in 1..Len(users) :
      users[i].email = profile.email /\ users[i].googleId # profile.id

\* this step is a strategy callback that returns the user the list already
\* holds for the profile's googleId and adds nothing
ReturnsExisting ==
    /\ users' = users
    /\ done'.user = FindGoogleId(users, done'.profile.id)

\* this step is a strategy callback that ends with done(null, false),
\* leaves the list alone and sets no cookie
Rejects ==
    /\ done'.user = NoGoogleUser
    /\ users' = users
    /\ UNCHANGED <<reqToken, session>>

\* C28: after any sequence of strategy callbacks no two users of the list
\* share a googleId, an email or an id, and a callback for a googleId that
\* is in the list returns that user and adds nothing.
C28_UsersUniqueAndReused ==
    /\ []UniqueUsers
    /\ [][(done' # done /\ Known(done'.profile)) => ReturnsExisting]_vars

\* C28 as the code has it: the existing user is returned when the profile
\* carries an email; uniqueness holds as stated.
C28_UsersUniqueAndReusedWithEmail ==
    /\ []UniqueUsers
    /\ [][(done' # done /\ Known(done'.profile) /\ done'.profile.email # None)
            => ReturnsExisting]_vars

C28_Witness ==
    /\ Len(users) >= 2
    /\ done.called
    /\ done.user = users[1]
    /\ done.profile.email # users[1].email

\* C29: a callback whose profile has no email, or whose email belongs to a
\* user with another googleId, ends with done(null, false), leaves the list
\* unchanged, and no JWT cookie is issued.
C29_RejectedCallbackChangesNothing ==
    [][(done' # done
          /\ (done'.profile.email = None \/ EmailTaken(done'.profile)))
        => Rejects]_vars

\* C29 as the code has it: the email test is made only for a googleId that
\* is not in the list.
C29_RejectedUnknownChangesNothing ==
    [][(done' # done
          /\ \/ done'.profile.email = None
             \/ ~Known(done'.profile) /\ EmailTaken(done'.profile))
        => Rejects]_vars

C29_Witness ==
    /\ done.called
    /\ done.user = NoGoogleUser
    /\ done.profile.email # None
    /\ EmailTaken(done.profile)
    /\ reqToken = NoJwt

\* request k was made inside a session: an earlier successful login gave
\* out the session id it carries, and no logout was requested with that id
\* since
InSession(k) ==
    \E j \in 1..(k - 1) :
      /\ requests[j].route = "login"
      /\ requests[j].ok
      /\ requests[j].newSid = requests[k].sid
      /\ \A i \in (j + 1)..(k - 1) :
           ~(requests[i].route = "logout" /\ requests[i].sid = requests[k].sid)

\* C30: a login attempt authenticates exactly when a user with the given
\* username exists and the given password is that user's; /dashboard
\* serves content only to a request made between a successful login and
\* the next logout of its session, and redirects otherwise.
C30_LocalLoginAndDashboard ==
    \A k \in 1..Len(requests) :
      /\ requests[k].route = "login" =>
           (requests[k].ok <=>
              \E i \in 1..Len(LocalUsers) :
                /\ LocalUsers[i].username = requests[k].username
                /\ LocalUsers[i].password = requests[k].password)
      /\ (requests[k].route = "dashboard" /\ requests[k].ok) => InSession(k)

C30_Witness ==
    /\ Len(requests) = 4
    /\ requests[1].route = "login" /\ requests[1].ok
    /\ requests[2].route = "dashboard" /\ requests[2].ok
    /\ requests[3].route = "logout" /\ requests[3].sid = requests[1].newSid
    /\ requests[4].route = "dashboard" /\ ~requests[4].ok
    /\ requests[4].sid = requests[1].newSid

====
